---- MODULE Spec2Model ----
(***************************************************************************)
(* A model of CodeMINITOR/analyzer.py: the metric extractor (CodeAnalyzer), *)
(* the scorer (ScoreEngine), the history file (HistoryStore) and main().    *)
(*                                                                          *)
(* The history file is a sequence of characters; json.dumps and json.loads  *)
(* are modelled on the alphabet  [ ] { } , space 0-9  (arrays, the empty    *)
(* object and unsigned integers).  A source file is the list of nodes that  *)
(* ast.walk yields for it, with its line structure.                         *)
(***************************************************************************)
EXTENDS Integers, Sequences, FiniteSets, TLC

VARIABLES
    file,    \* history.json: [st: "absent" | "text" | "binary", data: characters]
    run,     \* per invocation: position in main() and its local variables
    faults,  \* whether the file system may answer a read or a write with an I/O error
    saved,   \* the scores handed to save_score by the direct caller, oldest first
    nruns,   \* invocations started so far
    ver      \* number of modifications of history.json so far

vars == <<file, run, faults, saved, nruns, ver>>

(***************************************************************************)
(* Program constants and the bounds of the model.                          *)
(***************************************************************************)
MAX_FUNCTION_LINES == 20
MAX_FILE_LINES == 300
DEFAULT_SCORE == 100

MaxNodes == 2      \* nodes of a source file
MaxCount == 2      \* largest count in a hand-made MetricSet
MaxSaves == 3      \* save_score calls of the direct caller
MaxRuns == 2       \* invocations of main()

Procs == {1, 2}

Max(a, b) == IF a >= b THEN a ELSE b

RECURSIVE SeqSum(_)
SeqSum(s) == IF s = <<>> THEN 0 ELSE Head(s) + SeqSum(Tail(s))

RECURSIVE SeqMax(_)
SeqMax(s) == IF Len(s) = 1 THEN s[1] ELSE Max(Head(s), SeqMax(Tail(s)))

IsPrefix(s, t) == Len(s) <= Len(t) /\ SubSeq(t, 1, Len(s)) = s

(***************************************************************************)
(* Python values that json.loads can return on the modelled alphabet.      *)
(***************************************************************************)
PyInt(n) == [t |-> "int", v |-> n, items |-> <<>>]
PyDict == [t |-> "dict", v |-> 0, items |-> <<>>]
PyList(s) == [t |-> "list", v |-> 0, items |-> s]

\* Python truthiness: bool(x)
Truthy(x) ==
    CASE x.t = "int" -> x.v # 0
      [] x.t = "list" -> x.items # <<>>
      [] OTHER -> FALSE

(***************************************************************************)
(* json.dumps                                                               *)
(***************************************************************************)
DigitChars == <<"0", "1", "2", "3", "4", "5", "6", "7", "8", "9">>

IsDigit(c) == \E d \in 1..10 : DigitChars[d] = c

DigitValue(c) == (CHOOSE d \in 1..10 : DigitChars[d] = c) - 1

RECURSIVE IntToChars(_)
IntToChars(n) ==
    IF n < 10 THEN <<DigitChars[n + 1]>>
    ELSE IntToChars(n \div 10) \o <<DigitChars[(n % 10) + 1]>>

RECURSIVE dumps(_)
RECURSIVE DumpItems(_)
DumpItems(s) ==
    IF s = <<>> THEN <<>>
    ELSE IF Len(s) = 1 THEN dumps(s[1])
    ELSE dumps(Head(s)) \o <<",", " ">> \o DumpItems(Tail(s))

dumps(x) ==
    CASE x.t = "int" -> IntToChars(x.v)
      [] x.t = "dict" -> <<"{", "}">>
      [] OTHER -> <<"[">> \o DumpItems(x.items) \o <<"]">>

(***************************************************************************)
(* json.loads: a value between optional whitespace, nothing after it.      *)
(* A parse result is [ok, val, next]; ok = FALSE is JSONDecodeError.        *)
(***************************************************************************)
ParseError == [ok |-> FALSE, val |-> PyDict, next |-> 0]
Parsed(x, n) == [ok |-> TRUE, val |-> x, next |-> n]

RECURSIVE SkipWs(_, _)
SkipWs(s, i) == IF i <= Len(s) /\ s[i] = " " THEN SkipWs(s, i + 1) ELSE i

RECURSIVE ParseDigits(_, _, _)
ParseDigits(s, i, acc) ==
    IF i <= Len(s) /\ IsDigit(s[i])
    THEN ParseDigits(s, i + 1, acc * 10 + DigitValue(s[i]))
    ELSE Parsed(PyInt(acc), i)

\* a number: 0, or a nonzero digit followed by digits
ParseInt(s, i) ==
    IF s[i] = "0" THEN Parsed(PyInt(0), i + 1) ELSE ParseDigits(s, i, 0)

RECURSIVE ParseValue(_, _)
RECURSIVE ParseItems(_, _, _)
\* i: the place of the next item of an array whose items so far are acc
ParseItems(s, i, acc) ==
    LET item == ParseValue(s, i)
        j == SkipWs(s, item.next)
    IN  IF ~item.ok \/ j > Len(s) THEN ParseError
        ELSE IF s[j] = "]" THEN Parsed(PyList(Append(acc, item.val)), j + 1)
        ELSE IF s[j] = "," THEN ParseItems(s, SkipWs(s, j + 1), Append(acc, item.val))
        ELSE ParseError

ParseValue(s, i) ==
    IF i > Len(s) THEN ParseError
    ELSE IF s[i] = "["
         THEN LET j == SkipWs(s, i + 1)
              IN  IF j <= Len(s) /\ s[j] = "]" THEN Parsed(PyList(<<>>), j + 1)
                  ELSE ParseItems(s, j, <<>>)
    ELSE IF s[i] = "{"
         THEN LET j == SkipWs(s, i + 1)
              IN  IF j <= Len(s) /\ s[j] = "}" THEN Parsed(PyDict, j + 1)
                  ELSE ParseError
    ELSE IF IsDigit(s[i]) THEN ParseInt(s, i)
    ELSE ParseError

loads(s) ==
    LET r == ParseValue(s, SkipWs(s, 1))
    IN  IF r.ok /\ SkipWs(s, r.next) = Len(s) + 1 THEN r ELSE ParseError

(***************************************************************************)
(* Source files.  A node is what ast.walk yields: its type, and for a       *)
(* function definition its docstring, its return annotation, its           *)
(* parameters (TRUE: the parameter carries an annotation) and its lines.    *)
(***************************************************************************)
NoArgs == [posonlyargs |-> <<>>, args |-> <<>>, kwonlyargs |-> <<>>,
           vararg |-> "absent", kwarg |-> "absent"]

Signatures ==
    {NoArgs}
    \cup {[NoArgs EXCEPT !.args = a] : a \in {<<FALSE>>, <<TRUE>>, <<FALSE, TRUE>>, <<TRUE, TRUE>>}}
    \cup {[NoArgs EXCEPT !.posonlyargs = <<TRUE>>], [NoArgs EXCEPT !.kwonlyargs = <<TRUE>>],
          [NoArgs EXCEPT !.vararg = "annotated"], [NoArgs EXCEPT !.kwarg = "annotated"],
          [NoArgs EXCEPT !.vararg = "bare"]}

\* doc: the first statement of the body: "none" (not a string), "empty" (the
\* string ""), "text" (a non-empty string)
Def(type, doc, returns, sig, last) ==
    [type |-> type, doc |-> doc, returns |-> returns, args |-> sig,
     lineno |-> 1, end_lineno |-> last]

Stmt(type) == Def(type, "none", FALSE, NoArgs, 1)

\* function definitions: every signature with and without a return annotation,
\* every kind of first statement, a span at and above the limit
FunctionNodes ==
    {Def("FunctionDef", "none", r, sig, 1) : r \in BOOLEAN, sig \in Signatures}
    \cup {Def("FunctionDef", d, FALSE, NoArgs, 1) : d \in {"empty", "text"}}
    \cup {Def("FunctionDef", "text", TRUE, [NoArgs EXCEPT !.args = <<TRUE>>], 1)}
    \cup {Def("FunctionDef", "none", FALSE, NoArgs, 1 + n) :
            n \in {MAX_FUNCTION_LINES, MAX_FUNCTION_LINES + 1}}

OtherNodes ==
    {Stmt(t) : t \in {"Import", "ImportFrom", "Expr"}}
    \cup {Def("AsyncFunctionDef", "text", TRUE, [NoArgs EXCEPT !.args = <<TRUE>>],
              2 + MAX_FUNCTION_LINES)}

Nodes == FunctionNodes \cup OtherNodes

NodeLists == UNION {[1..n -> Nodes] : n \in 0..MaxNodes}

\* text: newlines terminated lines, tail: content after the last newline
Texts == {[newlines |-> n, tail |-> b] :
            n \in {0, MAX_FILE_LINES - 1, MAX_FILE_LINES}, b \in BOOLEAN}

\* len(source.splitlines())
splitlines_len(text) == text.newlines + (IF text.tail THEN 1 ELSE 0)

ValidSource(text, nodes) == [kind |-> "ok", text |-> text, nodes |-> nodes]

\* a file that cannot be analysed: "syntax" (SyntaxError), "undecodable"
\* (UnicodeDecodeError), "unreadable" (OSError from read_text)
BadSource(kind) == [kind |-> kind, text |-> [newlines |-> 0, tail |-> FALSE], nodes |-> <<>>]

BadKinds == {"syntax", "undecodable", "unreadable"}

\* every node lies within the text
Fits(text, nodes) == \A i \in DOMAIN nodes : nodes[i].end_lineno <= splitlines_len(text)

Sources ==
    {s \in {ValidSource(t, ns) : t \in Texts, ns \in NodeLists} : Fits(s.text, s.nodes)}
    \cup {BadSource(k) : k \in BadKinds}

(***************************************************************************)
(* CodeAnalyzer                                                             *)
(***************************************************************************)
\* isinstance(n, ast.FunctionDef)
IsFunctionDef(n) == n.type = "FunctionDef"

\* isinstance(n, (ast.Import, ast.ImportFrom))
IsImport(n) == n.type \in {"Import", "ImportFrom"}

\* the filter on the node type left out
FunctionsOf_unfiltered(nodes) == nodes

\* [n for n in ast.walk(tree) if isinstance(n, ast.FunctionDef)]
FunctionsOf(nodes) == SelectSeq(nodes, IsFunctionDef)

\* any(arg.annotation for arg in args)
AnyAnnotated(args) == \E i \in DOMAIN args : args[i]

HasTypeHint(node) ==
    LET has_return_hint == node.returns
        has_args_hint == AnyAnnotated(node.args.args)
    IN  has_return_hint \/ has_args_hint

count_type_hints(functions) ==
    Cardinality({i \in DOMAIN functions : HasTypeHint(functions[i])})

IsLong(n) == (n.end_lineno - n.lineno) > MAX_FUNCTION_LINES

count_long_functions(functions) ==
    Cardinality({i \in DOMAIN functions : IsLong(functions[i])})

\* ast.get_docstring(n) is truthy
HasDocstring(n) == n.doc = "text"

\* the metrics of a source that parsed
analyze(source) ==
    LET functions == FunctionsOf(source.nodes)
    IN  [lines |-> splitlines_len(source.text),
         functions |-> Len(functions),
         imports |-> Cardinality({i \in DOMAIN source.nodes : IsImport(source.nodes[i])}),
         docstrings |-> Cardinality({i \in DOMAIN functions : HasDocstring(functions[i])}),
         type_hints |-> count_type_hints(functions),
         long_functions |-> count_long_functions(functions)]

\* read_text or ast.parse raised what analyze catches
ParseFails(source) == source.kind \in {"syntax", "undecodable"}

(***************************************************************************)
(* ScoreEngine                                                              *)
(***************************************************************************)
DocPenalties(metrics) ==
    (IF metrics.docstrings < metrics.functions THEN 10 ELSE 0)
    + (IF metrics.type_hints < metrics.functions THEN 10 ELSE 0)

\* rule 1 read as "stop": no further deduction once functions = 0
calculate_stop(metrics) ==
    IF metrics.functions = 0 THEN DEFAULT_SCORE - 30
    ELSE LET s1 == DEFAULT_SCORE - DocPenalties(metrics)
             s2 == IF metrics.long_functions > 0 THEN s1 - 10 ELSE s1
             s3 == IF metrics.lines > MAX_FILE_LINES THEN s2 - 10 ELSE s2
         IN  Max(s3, 0)

calculate(metrics) ==
    LET s1 == IF metrics.functions = 0 THEN DEFAULT_SCORE - 30
              ELSE DEFAULT_SCORE - DocPenalties(metrics)
        s2 == IF metrics.long_functions > 0 THEN s1 - 10 ELSE s1
        s3 == IF metrics.lines > MAX_FILE_LINES THEN s2 - 10 ELSE s2
    IN  Max(s3, 0)

NoMetrics == [lines |-> 0, functions |-> 0, imports |-> 0, docstrings |-> 0,
              type_hints |-> 0, long_functions |-> 0]

\* hand-made MetricSets, as the tests of calculate pass them
MetricSets ==
    [lines : {0, MAX_FILE_LINES, MAX_FILE_LINES + 1}, functions : 0..MaxCount,
     imports : {0}, docstrings : 0..MaxCount, type_hints : 0..MaxCount,
     long_functions : 0..MaxCount]

(***************************************************************************)
(* HistoryStore                                                             *)
(***************************************************************************)
Absent == [st |-> "absent", data |-> <<>>]
Binary == [st |-> "binary", data |-> <<>>]     \* bytes that are not UTF-8
Text(chars) == [st |-> "text", data |-> chars]

Returned(x) == [raised |-> "none", val |-> x]
Raised(e) == [raised |-> e, val |-> PyDict]

\* get_all on file f; io: the read did not fail with an I/O error
get_all(f, io) ==
    IF f.st = "absent" THEN Returned(PyList(<<>>))
    ELSE IF ~io THEN Returned(PyList(<<>>))
    ELSE IF f.st = "binary" THEN Raised("UnicodeDecodeError")
    ELSE LET r == loads(f.data)
         IN  IF r.ok THEN Returned(r.val) ELSE Returned(PyList(<<>>))

\* history.insert(0, score) in place of history.append(score)
append_front(history, score) ==
    IF history.t = "list" THEN Returned(PyList(<<PyInt(score)>> \o history.items))
    ELSE Raised("AttributeError")

\* history = [score] in place of history.append(score)
append_fresh(history, score) ==
    IF history.t = "list" THEN Returned(PyList(<<PyInt(score)>>))
    ELSE Raised("AttributeError")

\* history.append(score)
append(history, score) ==
    IF history.t = "list" THEN Returned(PyList(Append(history.items, PyInt(score))))
    ELSE Raised("AttributeError")

\* a write of chars at offset 0 of a file opened with mode "w" whose content,
\* since the open truncated it, has become old
Overwrite(old, chars) ==
    IF Len(chars) >= Len(old) THEN chars
    ELSE chars \o SubSeq(old, Len(chars) + 1, Len(old))

AllInts(items) == \A i \in DOMAIN items : items[i].t = "int"

IntsOf(items) == [i \in DOMAIN items |-> items[i].v]

NoStats == [runs |-> 0, average |-> [num |-> 0, den |-> 1], best |-> 0]

\* the average by floor division
get_statistics_floor(history) ==
    IF ~Truthy(history) THEN Returned(NoStats)
    ELSE IF history.t # "list" \/ ~AllInts(history.items) THEN Raised("TypeError")
    ELSE Returned([runs |-> Len(history.items),
                   average |-> [num |-> SeqSum(IntsOf(history.items)) \div Len(history.items),
                                den |-> 1],
                   best |-> SeqMax(IntsOf(history.items))])

\* the average is the fraction num / den
get_statistics(history) ==
    IF ~Truthy(history) THEN Returned(NoStats)
    ELSE IF history.t # "list" \/ ~AllInts(history.items) THEN Raised("TypeError")
    ELSE Returned([runs |-> Len(history.items),
                   average |-> [num |-> SeqSum(IntsOf(history.items)),
                                den |-> Len(history.items)],
                   best |-> SeqMax(IntsOf(history.items))])

(***************************************************************************)
(* main(): one record per invocation.                                      *)
(*   pc        where the invocation is                                      *)
(*   caller    "main", or "test" for a direct caller of HistoryStore        *)
(*   exit_code -1 while running                                             *)
(*   outcome   how it ended: ok, usage, invalid, parse, crash               *)
(*   raised    the exception that ended it, if one did                      *)
(*   history   the local variable of save_score; what get_all returned      *)
(*   ret       the HistoryStore method that returned last                   *)
(*   warned    the warning of save_score was printed                        *)
(*   start, before   history.json when main() began, when save_score began  *)
(*   wrote     the invocation opened history.json for writing              *)
(*   n         the invocation is the n-th one started                       *)
(*   readok    the read of save_score met no I/O error                      *)
(*   rv, ov, wv   ver at its read, after its open, after its write          *)
(***************************************************************************)
\* argc is len(sys.argv).  The path is sys.argv[1], read once the argument
\* count is right; the source is the content of the file at the path, there
\* once the path is known to be a file.
UsageError(argc) == argc # 2

\* "and" in place of "or"
InvalidFile_and(path) == ~path.is_file /\ path.suffix # ".py"

InvalidFile(path) == ~path.is_file \/ path.suffix # ".py"

IdleRun ==
    [pc |-> "idle", caller |-> "main", argc |-> 2,
     path |-> [is_file |-> TRUE, suffix |-> ".py"],
     source |-> BadSource("syntax"), metrics |-> NoMetrics, score |-> 0,
     history |-> PyList(<<>>), stats |-> NoStats, exit_code |-> -1,
     outcome |-> "none", raised |-> "none", ret |-> "none", warned |-> FALSE,
     start |-> Absent, before |-> Absent, wrote |-> FALSE,
     n |-> 0, readok |-> FALSE, rv |-> 0, ov |-> 0, wv |-> 0]

Argcs == {1, 2, 3}

Paths == [is_file : BOOLEAN, suffix : {".py", ".txt"}]

GoodFunction == Def("FunctionDef", "text", TRUE, [NoArgs EXCEPT !.args = <<TRUE>>], 1)

\* the files the invocations analyse: scores 70, 100, 80 and the failures
RunSources ==
    {ValidSource([newlines |-> 1, tail |-> FALSE], <<>>),
     ValidSource([newlines |-> 1, tail |-> FALSE], <<GoodFunction>>),
     ValidSource([newlines |-> 1, tail |-> FALSE], <<Def("FunctionDef", "none", FALSE, NoArgs, 1)>>)}
    \cup {BadSource(k) : k \in BadKinds}

\* history.json as an invocation may find it
InitFiles ==
    {Absent, Binary,
     Text(<<>>),
     Text(<<"[", "8", "0", ",">>),
     Text(<<"{", "}">>),
     Text(<<"7">>),
     Text(<<"[", "{", "}", "]">>),
     Text(<<"[", "8", "0", ",", " ", "9", "0", "]">>)}

\* history.json as two racing invocations find it: absent, a history, a
\* truncated history
RaceFiles ==
    {Absent,
     Text(<<"[", "8", "0", ",">>),
     Text(<<"[", "8", "0", ",", " ", "9", "0", "]">>)}

IoOutcomes == IF faults THEN BOOLEAN ELSE {TRUE}

Set(p, r) == run' = [run EXCEPT ![p] = r]

Exit(r, code, how) == [r EXCEPT !.pc = "done", !.exit_code = code, !.outcome = how]

\* an exception nothing catches: traceback, exit status 1
Crash(r, e) == [Exit(r, 1, "crash") EXCEPT !.raised = e]

AfterSave(r) == IF r.caller = "main" THEN "stats" ELSE "idle"

AfterStats(r) == IF r.caller = "main" THEN "render" ELSE "idle"

Start(p) ==
    /\ run[p].pc = "idle"
    /\ nruns < MaxRuns
    /\ \E argc \in Argcs :
         Set(p, [IdleRun EXCEPT !.pc = "main", !.argc = argc, !.start = file,
                                !.n = nruns + 1])
    /\ nruns' = nruns + 1
    /\ UNCHANGED <<file, faults, saved, ver>>

CheckArgs(p) ==
    /\ run[p].pc = "main"
    /\ \E path \in Paths :
         Set(p, IF UsageError(run[p].argc) THEN Exit(run[p], 1, "usage")
                ELSE [run[p] EXCEPT !.pc = "check_file", !.path = path])
    /\ UNCHANGED <<file, faults, saved, nruns, ver>>

CheckFile(p) ==
    /\ run[p].pc = "check_file"
    /\ \E source \in RunSources :
         Set(p, IF InvalidFile(run[p].path) THEN Exit(run[p], 1, "invalid")
                ELSE [run[p] EXCEPT !.pc = "analyze", !.source = source])
    /\ UNCHANGED <<file, faults, saved, nruns, ver>>

Analyze(p) ==
    /\ run[p].pc = "analyze"
    /\ Set(p, IF ParseFails(run[p].source) THEN Exit(run[p], 1, "parse")
              ELSE IF run[p].source.kind = "unreadable" THEN Crash(run[p], "OSError")
              ELSE [run[p] EXCEPT !.pc = "calculate", !.metrics = analyze(run[p].source)])
    /\ UNCHANGED <<file, faults, saved, nruns, ver>>

Calculate(p) ==
    /\ run[p].pc = "calculate"
    /\ Set(p, [run[p] EXCEPT !.pc = "save_read", !.score = calculate(run[p].metrics)])
    /\ UNCHANGED <<file, faults, saved, nruns, ver>>

\* save_score: history = self.get_all(); history.append(score)
SaveRead(p) ==
    /\ run[p].pc = "save_read"
    /\ \E io \in IoOutcomes :
         LET got == get_all(file, io)
             new == append(got.val, run[p].score)
             r == [run[p] EXCEPT !.before = file, !.rv = ver, !.readok = io]
         IN  Set(p, IF got.raised # "none" THEN Crash(r, got.raised)
                    ELSE IF new.raised # "none" THEN Crash(r, new.raised)
                    ELSE [r EXCEPT !.pc = "save_open", !.history = new.val])
    /\ UNCHANGED <<file, faults, saved, nruns, ver>>

\* write_text opens the file with mode "w": the open truncates it
SaveOpen(p) ==
    /\ run[p].pc = "save_open"
    /\ \E io \in IoOutcomes :
         IF io
         THEN /\ file' = Text(<<>>)
              /\ ver' = ver + 1
              /\ Set(p, [run[p] EXCEPT !.pc = "save_write", !.wrote = TRUE, !.ov = ver + 1])
         ELSE /\ Set(p, [run[p] EXCEPT !.pc = AfterSave(run[p]), !.warned = TRUE,
                                       !.ret = "save_score"])
              /\ UNCHANGED <<file, ver>>
    /\ UNCHANGED <<faults, saved, nruns>>

\* write_text writes json.dumps(history) and closes the file
SaveWrite(p) ==
    /\ run[p].pc = "save_write"
    /\ \E io \in IoOutcomes :
         IF io
         THEN /\ file' = Text(Overwrite(file.data, dumps(run[p].history)))
              /\ ver' = ver + 1
              /\ Set(p, [run[p] EXCEPT !.pc = AfterSave(run[p]), !.wv = ver + 1,
                                       !.ret = "save_score"])
         ELSE /\ Set(p, [run[p] EXCEPT !.pc = AfterSave(run[p]), !.warned = TRUE,
                                       !.ret = "save_score"])
              /\ UNCHANGED <<file, ver>>
    /\ UNCHANGED <<faults, saved, nruns>>

\* history.get_statistics(), the argument of render_dashboard
Stats(p) ==
    /\ run[p].pc = "stats"
    /\ \E io \in IoOutcomes :
         LET got == get_all(file, io)
             st == get_statistics(got.val)
         IN  Set(p, IF got.raised # "none" THEN Crash(run[p], got.raised)
                    ELSE IF st.raised # "none" THEN Crash(run[p], st.raised)
                    ELSE [run[p] EXCEPT !.pc = AfterStats(run[p]), !.stats = st.val,
                                        !.ret = "get_statistics"])
    /\ UNCHANGED <<file, faults, saved, nruns, ver>>

\* render_dashboard, and main() returns
Render(p) ==
    /\ run[p].pc = "render"
    /\ Set(p, Exit(run[p], 0, "ok"))
    /\ UNCHANGED <<file, faults, saved, nruns, ver>>

Step(p) ==
    \/ Start(p)
    \/ CheckArgs(p)
    \/ CheckFile(p)
    \/ Analyze(p)
    \/ Calculate(p)
    \/ SaveRead(p)
    \/ SaveOpen(p)
    \/ SaveWrite(p)
    \/ Stats(p)
    \/ Render(p)

InitWith(files, faulty) ==
    /\ file \in files
    /\ run = [p \in Procs |-> IdleRun]
    /\ faults = faulty
    /\ saved = <<>>
    /\ nruns = 0
    /\ ver = 0

Init == InitWith(InitFiles, TRUE)

InitRace == InitWith(RaceFiles, TRUE)

\* two invocations of the program, interleaved at their file operations
Next == \E p \in Procs : Step(p)

Spec == InitRace /\ [][Next]_vars

\* the process has ended; the next invocation is a new process
Again(p) ==
    /\ run[p].pc = "done"
    /\ Set(p, IdleRun)
    /\ UNCHANGED <<file, faults, saved, nruns, ver>>

\* invocations one after the other
Quiet(p) == \A q \in Procs \ {p} : run[q].pc \in {"idle", "done"}

NextSeq ==
    \E p \in Procs :
        \/ Quiet(p) /\ Start(p)
        \/ Quiet(p) /\ CheckArgs(p)
        \/ Quiet(p) /\ CheckFile(p)
        \/ Quiet(p) /\ Analyze(p)
        \/ Quiet(p) /\ Calculate(p)
        \/ Quiet(p) /\ SaveRead(p)
        \/ Quiet(p) /\ SaveOpen(p)
        \/ Quiet(p) /\ SaveWrite(p)
        \/ Quiet(p) /\ Stats(p)
        \/ Quiet(p) /\ Render(p)
        \/ Quiet(p) /\ Again(p)

SpecSeq == Init /\ [][NextSeq]_vars

(***************************************************************************)
(* ScoreEngine.calculate on hand-made MetricSets, as test_score_perfect.    *)
(***************************************************************************)
InitScore ==
    /\ file = Absent
    /\ \E m \in MetricSets :
         run = [p \in Procs |-> IF p = 1 THEN [IdleRun EXCEPT !.pc = "calculate", !.metrics = m]
                                ELSE IdleRun]
    /\ faults = FALSE
    /\ saved = <<>>
    /\ nruns = 0
    /\ ver = 0

NextScore == Calculate(1)

SpecScore == InitScore /\ [][NextScore]_vars

(***************************************************************************)
(* CodeAnalyzer.analyze, then calculate, on every source of Sources.       *)
(***************************************************************************)
InitExtract ==
    /\ file = Absent
    /\ \E src \in Sources :
         run = [p \in Procs |-> IF p = 1 THEN [IdleRun EXCEPT !.pc = "analyze", !.source = src]
                                ELSE IdleRun]
    /\ faults = FALSE
    /\ saved = <<>>
    /\ nruns = 0
    /\ ver = 0

NextExtract == Analyze(1) \/ Calculate(1)

SpecExtract == InitExtract /\ [][NextExtract]_vars

(***************************************************************************)
(* A direct caller of HistoryStore, as the tests: save_score, get_all      *)
(* and get_statistics one after the other on a file that is absent at      *)
(* first, on a file system whose reads and writes succeed.                  *)
(***************************************************************************)
TestScores == {0, 7, 80, 100}

TestSave(p, score) ==
    /\ run[p].pc = "idle"
    /\ Len(saved) < MaxSaves
    /\ Set(p, [IdleRun EXCEPT !.pc = "save_read", !.caller = "test", !.score = score])
    /\ saved' = Append(saved, score)
    /\ UNCHANGED <<file, faults, nruns, ver>>

TestGetAll(p) ==
    /\ run[p].pc = "idle"
    /\ \E io \in IoOutcomes :
         LET got == get_all(file, io)
         IN  Set(p, IF got.raised # "none" THEN Crash(run[p], got.raised)
                    ELSE [IdleRun EXCEPT !.caller = "test", !.history = got.val,
                                         !.ret = "get_all"])
    /\ UNCHANGED <<file, faults, saved, nruns, ver>>

TestStats(p) ==
    /\ run[p].pc = "idle"
    /\ Set(p, [IdleRun EXCEPT !.pc = "stats", !.caller = "test"])
    /\ UNCHANGED <<file, faults, saved, nruns, ver>>

InitStore == InitWith({Absent}, FALSE)

NextStore ==
    \/ \E score \in TestScores : TestSave(1, score)
    \/ TestGetAll(1)
    \/ TestStats(1)
    \/ SaveRead(1)
    \/ SaveOpen(1)
    \/ SaveWrite(1)
    \/ Stats(1)

SpecStore == InitStore /\ [][NextStore]_vars

(***************************************************************************)
(* Properties                                                               *)
(***************************************************************************)
B(cond) == IF cond THEN 1 ELSE 0

\* the list stored in history.json; none when the content is not a JSON array
StoredItems(f) ==
    IF f.st # "text" THEN <<>>
    ELSE LET r == loads(f.data)
         IN  IF r.ok /\ r.val.t = "list" THEN r.val.items ELSE <<>>

Scored(r) == r.pc = "save_read" /\ r.caller = "main"

\* C1: for every MetricSet of non-negative counts, calculate returns
\* max(0, 100 - 30*[functions = 0] - 10*[functions > 0 and docstrings < functions]
\* - 10*[functions > 0 and type_hints < functions] - 10*[long_functions > 0]
\* - 10*[lines > 300]); in particular the long-function and file-length
\* penalties still apply when functions = 0.
C1_ScoreFormula ==
    \A p \in Procs :
        Scored(run[p]) =>
            LET m == run[p].metrics
            IN  run[p].score =
                  Max(0, 100 - 30 * B(m.functions = 0)
                             - 10 * B(m.functions > 0 /\ m.docstrings < m.functions)
                             - 10 * B(m.functions > 0 /\ m.type_hints < m.functions)
                             - 10 * B(m.long_functions > 0)
                             - 10 * B(m.lines > 300))

\* a MetricSet with no functions, a long function and more than 300 lines was scored 50
C1_Witness ==
    \E p \in Procs :
        /\ Scored(run[p])
        /\ run[p].metrics.functions = 0
        /\ run[p].metrics.long_functions > 0
        /\ run[p].metrics.lines > 300
        /\ run[p].score = 50

NoFunctionDef(source) ==
    source.kind = "ok" /\ \A i \in DOMAIN source.nodes : source.nodes[i].type # "FunctionDef"

\* C2: a source with no function definition yields functions = docstrings =
\* type_hints = long_functions = 0, and its score is 70 when it has at most 300
\* lines and 60 when it has more, whatever its imports and other nodes.
C2_NoFunctions ==
    \A p \in Procs :
        (run[p].pc \in {"calculate", "save_read"} /\ NoFunctionDef(run[p].source)) =>
            LET m == run[p].metrics
                lines == run[p].source.text.newlines + B(run[p].source.text.tail)
            IN  /\ m.functions = 0 /\ m.docstrings = 0
                /\ m.type_hints = 0 /\ m.long_functions = 0
                /\ run[p].pc = "save_read" =>
                      run[p].score = (IF lines <= 300 THEN 70 ELSE 60)

\* a 301-line source of an import and a statement, no function, was scored 60
C2_Witness ==
    \E p \in Procs :
        /\ run[p].pc = "save_read"
        /\ NoFunctionDef(run[p].source)
        /\ Len(run[p].source.nodes) = 2
        /\ run[p].metrics.imports = 1
        /\ run[p].metrics.lines = 301
        /\ run[p].score = 60

AnyParameterAnnotated(a) ==
    \/ \E i \in DOMAIN a.posonlyargs : a.posonlyargs[i]
    \/ \E i \in DOMAIN a.args : a.args[i]
    \/ \E i \in DOMAIN a.kwonlyargs : a.kwonlyargs[i]
    \/ a.vararg = "annotated"
    \/ a.kwarg = "annotated"

\* C10: type_hints is the number of function definitions that have a return
\* annotation or at least one annotated parameter of any kind (positional,
\* positional-only, keyword-only, *args, **kwargs), each counted once; hence
\* type_hints <= functions.
C10_TypeHintsAnyKind ==
    \A p \in Procs :
        (run[p].pc \in {"calculate", "save_read"} /\ run[p].source.kind = "ok") =>
            LET ns == run[p].source.nodes
                hinted == {i \in DOMAIN ns :
                             /\ ns[i].type = "FunctionDef"
                             /\ (ns[i].returns \/ AnyParameterAnnotated(ns[i].args))}
            IN  /\ run[p].metrics.type_hints = Cardinality(hinted)
                /\ run[p].metrics.type_hints <= run[p].metrics.functions

PyInts(scores) == [i \in DOMAIN scores |-> PyInt(scores[i])]

\* C3: from an absent history file, after the save_score calls s1..sN, get_all
\* returns exactly [s1, ..., sN], same length and same order.
C3_RoundTrip ==
    \A p \in Procs :
        run[p].ret = "get_all" => run[p].history = PyList(PyInts(saved))

\* get_all returned after three saves of scores with one, two and three digits
C3_Witness ==
    \E p \in Procs :
        /\ run[p].ret = "get_all"
        /\ Len(saved) >= 3
        /\ saved[1] < 10 /\ saved[2] >= 100 /\ saved[3] \in 10..99
        /\ Len(run[p].history.items) = Len(saved)

RECURSIVE Total(_, _)
Total(s, n) == IF n = 0 THEN 0 ELSE Total(s, n - 1) + s[n]

\* C7: get_statistics returns runs 0, average 0, best 0 on an empty history,
\* and otherwise runs = the length of the history, average = the mean of its
\* entries, best = their maximum; after saving 80 then 100: 2, 90, 100.
C7_Statistics ==
    \A p \in Procs :
        run[p].ret = "get_statistics" =>
            LET st == run[p].stats
            IN  /\ saved = <<>> =>
                      st.runs = 0 /\ st.average.num = 0 /\ st.best = 0
                /\ saved # <<>> =>
                      /\ st.runs = Len(saved)
                      /\ st.average.num * Len(saved) = Total(saved, Len(saved)) * st.average.den
                      /\ st.average.den > 0
                      /\ \E i \in DOMAIN saved : st.best = saved[i]
                      /\ \A i \in DOMAIN saved : saved[i] <= st.best
                /\ saved = <<80, 100>> =>
                      st.runs = 2 /\ st.average.num = 90 * st.average.den /\ st.best = 100

\* get_statistics returned after 80 and 100 were saved
C7_Witness ==
    \E p \in Procs :
        /\ run[p].ret = "get_statistics"
        /\ saved = <<80, 100>>
        /\ run[p].stats.runs = 2

Fatal(r) == r.outcome \in {"usage", "invalid", "parse"}

\* C8: a run ends with exit code 0 on success and nonzero on a usage error, an
\* invalid-file error or a parse error; the checks happen in that order, and a
\* fatal error ends the run before save_score, leaving the history file as the
\* run found it.
C8_ExitCodes ==
    \A p \in Procs :
        run[p].pc = "done" =>
            LET r == run[p]
                badpath == ~r.path.is_file \/ r.path.suffix # ".py"
            IN  /\ r.outcome = "ok" => r.exit_code = 0
                /\ r.exit_code = 0 => r.outcome = "ok"
                /\ Fatal(r) => r.exit_code # 0 /\ ~r.wrote
                /\ (Fatal(r) /\ r.n = nruns) => file = r.start
                /\ r.argc # 2 => r.outcome = "usage"
                /\ (r.argc = 2 /\ badpath) => r.outcome = "invalid"
                /\ (r.argc = 2 /\ ~badpath /\ r.source.kind \in {"syntax", "undecodable"}) =>
                      r.outcome = "parse"
                /\ r.outcome = "usage" => r.argc # 2
                /\ r.outcome = "invalid" => badpath
                /\ r.outcome = "parse" => r.source.kind \in {"syntax", "undecodable"}

\* a run on a file that does not parse ended with exit code 1 and left the
\* history of two scores in place
C8_Witness ==
    \E p \in Procs :
        /\ run[p].pc = "done"
        /\ run[p].outcome = "parse"
        /\ run[p].exit_code = 1
        /\ run[p].n = nruns
        /\ Len(StoredItems(file)) = 2

SaveReturned(r) == r.caller = "main" /\ r.pc \in {"stats", "render"}

\* C4: the history stored before a save_score is a prefix of the history
\* stored after it, whatever state the run finds the file in and whether or
\* not its write succeeds.
C4_AppendOnly ==
    \A p \in Procs :
        SaveReturned(run[p]) =>
            IsPrefix(StoredItems(run[p].before), StoredItems(file))

\* C5: get_all never lets an exception reach its caller, so neither save_score
\* nor get_statistics raises, whatever the history file holds.
C5_NoException ==
    \A p \in Procs :
        run[p].raised \notin {"UnicodeDecodeError", "AttributeError", "TypeError"}

\* C6: when the write of save_score fails, the warning is printed, the stored
\* history is left exactly as it was before the call, and the run renders the
\* report and exits with code 0.
C6_WriteFailureAbsorbed ==
    \A p \in Procs :
        (run[p].caller = "main" /\ run[p].warned) =>
            /\ SaveReturned(run[p]) => file = run[p].before
            /\ run[p].pc = "done" => run[p].exit_code = 0 /\ run[p].outcome = "ok"

WriteOk(r) == r.wv > 0

\* both invocations read before either opened the file for writing
BothReadFirst(p, q) == run[p].rv < run[q].ov /\ run[q].rv < run[p].ov

\* p's write was over before q read
SaveBefore(p, q) == run[p].wv <= run[q].rv

\* C9: save_score is an unlocked read-then-write: when both of two concurrent
\* invocations read before either writes and both writes succeed, the final
\* history holds at most one of the two scores; when the two saves do not
\* overlap, both scores are there, in the order of the saves.
C9_LostUpdate ==
    \A p \in Procs : \A q \in Procs \ {p} :
        (WriteOk(run[p]) /\ WriteOk(run[q])) =>
            LET now == StoredItems(file)
            IN  /\ BothReadFirst(p, q) =>
                      /\ Len(now) <= Len(StoredItems(run[p].before)) + 1
                      /\ now \in {<<>>, run[p].history.items, run[q].history.items}
                /\ (SaveBefore(p, q) /\ run[q].readok) =>
                      /\ Len(now) >= 2
                      /\ now[Len(now) - 1] = PyInt(run[p].score)
                      /\ now[Len(now)] = PyInt(run[q].score)

\* the lost update: both read the history of two scores, both writes
\* succeeded, and the file holds that history and one of the two scores only
C9_Witness ==
    \E p \in Procs : \E q \in Procs \ {p} :
        /\ WriteOk(run[p]) /\ WriteOk(run[q])
        /\ BothReadFirst(p, q)
        /\ run[p].readok /\ run[q].readok
        /\ Len(StoredItems(run[p].before)) = 2
        /\ run[p].score # run[q].score
        /\ StoredItems(file) = Append(StoredItems(run[p].before), PyInt(run[q].score))

====
